---- MODULE Spec2Model ----
(***************************************************************************)
(* dracclient/utils.py: extraction of values from WSMAN response           *)
(* documents.  The functions are pure readers of an already parsed         *)
(* document; the only mutable object is the error_msgs list handed to      *)
(* validate_integer_value.                                                 *)
(*                                                                         *)
(* Python values are represented as follows.                               *)
(*   str             a sequence of one-character strings                   *)
(*   None or a str   [none |-> TRUE] or [none |-> FALSE, s |-> _]          *)
(*   True, False, None, 'optional' as override or enumeration member       *)
(*                   "True", "False", "None", "optional"                   *)
(*   outcome of a call   [kind |-> "raise", exc |-> _] or a record whose   *)
(*                   kind names the type of the returned value             *)
(***************************************************************************)
EXTENDS Integers, Sequences, FiniteSets, TLC

VARIABLES doc, call, result, error_msgs

vars == <<doc, call, result, error_msgs>>

-----------------------------------------------------------------------------
(* Bounds *)

MaxElems == 2

MaxMsgs == 3

-----------------------------------------------------------------------------
(* str methods *)

Whitespace == {" ", "\t", "\n"}

Uppercase ==
    <<"A", "B", "C", "D", "E", "F", "G", "H", "I", "J", "K", "L", "M",
      "N", "O", "P", "Q", "R", "S", "T", "U", "V", "W", "X", "Y", "Z">>

Lowercase ==
    <<"a", "b", "c", "d", "e", "f", "g", "h", "i", "j", "k", "l", "m",
      "n", "o", "p", "q", "r", "s", "t", "u", "v", "w", "x", "y", "z">>

LowerChar(c) ==
    IF \E i \in 1..Len(Uppercase) : Uppercase[i] = c
    THEN Lowercase[CHOOSE i \in 1..Len(Uppercase) : Uppercase[i] = c]
    ELSE c

lower(s) == [i \in 1..Len(s) |-> LowerChar(s[i])]

RECURSIVE lstrip(_)
lstrip(s) ==
    IF s # <<>> /\ Head(s) \in Whitespace THEN lstrip(Tail(s)) ELSE s

RECURSIVE rstrip(_)
rstrip(s) ==
    IF s # <<>> /\ s[Len(s)] \in Whitespace
    THEN rstrip(SubSeq(s, 1, Len(s) - 1))
    ELSE s

strip(s) == rstrip(lstrip(s))

\* sub in s
contains(s, sub) ==
    \E i \in 1..(Len(s) - Len(sub) + 1) :
        SubSeq(s, i, i + Len(sub) - 1) = sub

-----------------------------------------------------------------------------
(* Optional values and outcomes *)

None == [none |-> TRUE]

Str(s) == [none |-> FALSE, s |-> s]

Raise(exc) == [kind |-> "raise", exc |-> exc]

RaiseAttr(exc, attr) == [kind |-> "raise", exc |-> exc, attr |-> attr]

ReturnNone == [kind |-> "None"]

ReturnStr(s) == [kind |-> "str", s |-> s]

ReturnList(l) == [kind |-> "list", items |-> l]

ReturnVal(v) == [kind |-> "value", v |-> v]

ReturnDict(d) == [kind |-> "dict", d |-> d]

Bool(b) == IF b THEN "True" ELSE "False"

-----------------------------------------------------------------------------
(* The document: its elements in document order.  An element has a        *)
(* namespace, a tag, a text (None or a str) and an attribute mapping.      *)

NS_XMLSchema_Instance == "http://www.w3.org/2001/XMLSchema-instance"

NilKey == <<NS_XMLSchema_Instance, "nil">>

Elem(ns, tag, text, attrib) ==
    [ns |-> ns, tag |-> tag, text |-> text, attrib |-> attrib]

NoAttrib == <<>>

NilAttrib(v) == [k \in {NilKey} |-> v]

RECURSIVE SelectElems(_, _, _)
SelectElems(d, item, namespace) ==
    IF d = <<>> THEN <<>>
    ELSE IF Head(d).ns = namespace /\ Head(d).tag = item
         THEN <<Head(d)>> \o SelectElems(Tail(d), item, namespace)
         ELSE SelectElems(Tail(d), item, namespace)

\* doc.findall(query): every match in document order
findall(d, item, namespace) == SelectElems(d, item, namespace)

\* doc.find(query): the first match or None, as a sequence of length <= 1
find(d, item, namespace) ==
    IF findall(d, item, namespace) = <<>> THEN <<>>
    ELSE <<Head(findall(d, item, namespace))>>

find_xml(d, item, namespace, find_all) ==
    IF find_all THEN findall(d, item, namespace) ELSE find(d, item, namespace)

_is_attr_non_nil(elem) ==
    ~(NilKey \in DOMAIN elem.attrib /\ elem.attrib[NilKey] = "true")

\* item.text.strip(): AttributeError when item.text is None
text_strip(elem) ==
    IF elem.text.none THEN Raise("AttributeError")
    ELSE ReturnStr(strip(elem.text.s))

\* variant: the text of a non-nullable element is stripped without the
\* "is None" test
get_wsman_resource_attr_unchecked_text(d, resource_uri, attr_name, nullable, allow_missing) ==
    LET item == find_xml(d, attr_name, resource_uri, FALSE) IN
    IF item = <<>>
    THEN IF allow_missing THEN ReturnNone
         ELSE RaiseAttr("DRACMissingResponseField", attr_name)
    ELSE IF ~nullable
         THEN text_strip(item[1])
         ELSE IF _is_attr_non_nil(item[1])
              THEN text_strip(item[1])
              ELSE ReturnNone

\* variant: a missing element is tolerated only for a nullable attribute
get_wsman_resource_attr_missing_if_nullable(d, resource_uri, attr_name, nullable, allow_missing) ==
    LET item == find_xml(d, attr_name, resource_uri, FALSE) IN
    IF item = <<>>
    THEN IF allow_missing /\ nullable THEN ReturnNone
         ELSE RaiseAttr("DRACMissingResponseField", attr_name)
    ELSE IF ~nullable
         THEN IF item[1].text.none
              THEN RaiseAttr("DRACEmptyResponseField", attr_name)
              ELSE ReturnStr(strip(item[1].text.s))
         ELSE IF _is_attr_non_nil(item[1])
              THEN text_strip(item[1])
              ELSE ReturnNone

get_wsman_resource_attr(d, resource_uri, attr_name, nullable, allow_missing) ==
    LET item == find_xml(d, attr_name, resource_uri, FALSE) IN
    IF item = <<>>
    THEN IF allow_missing THEN ReturnNone
         ELSE RaiseAttr("DRACMissingResponseField", attr_name)
    ELSE IF ~nullable
         THEN IF item[1].text.none
              THEN RaiseAttr("DRACEmptyResponseField", attr_name)
              ELSE ReturnStr(strip(item[1].text.s))
         ELSE IF _is_attr_non_nil(item[1])
              THEN text_strip(item[1])
              ELSE ReturnNone


RECURSIVE StripAll(_)
StripAll(items) ==
    IF items = <<>> THEN ReturnList(<<>>)
    ELSE LET first == text_strip(Head(items))
             rest  == StripAll(Tail(items))
         IN IF first.kind = "raise" THEN first
            ELSE IF rest.kind = "raise" THEN rest
            ELSE ReturnList(<<first.s>> \o rest.items)

get_all_wsman_resource_attrs(d, resource_uri, attr_name, nullable) ==
    LET items == find_xml(d, attr_name, resource_uri, TRUE) IN
    IF ~nullable
    THEN IF \E i \in 1..Len(items) : items[i].text.none
         THEN RaiseAttr("DRACEmptyResponseField", attr_name)
         ELSE StripAll(items)
    ELSE StripAll(SelectSeq(items, _is_attr_non_nil))

-----------------------------------------------------------------------------
(* constants.RebootRequired and the REBOOT_REQUIRED table *)

RebootRequired_true == "True"

RebootRequired_false == "False"

RebootRequired_optional == "optional"

RebootRequired_all ==
    {RebootRequired_true, RebootRequired_optional, RebootRequired_false}

yes == <<"y", "e", "s">>

no == <<"n", "o">>

optional == <<"o", "p", "t", "i", "o", "n", "a", "l">>

pendingvalue == <<"p", "e", "n", "d", "i", "n", "g", "v", "a", "l", "u", "e">>

REBOOT_REQUIRED ==
    [k \in {yes, no, optional} |->
        IF k = yes THEN RebootRequired_true
        ELSE IF k = no THEN RebootRequired_false
        ELSE RebootRequired_optional]

\* variant: (elem.text or '').lower()
text_lower_default_empty(item) ==
    IF item = <<>> THEN Raise("AttributeError")
    ELSE IF item[1].text.none THEN ReturnStr(<<>>)
    ELSE ReturnStr(lower(item[1].text.s))

\* elem.text.lower() of the element find_xml returned: AttributeError when
\* the element is None or its text is None
text_lower(item) ==
    IF item = <<>> THEN Raise("AttributeError")
    ELSE IF item[1].text.none THEN Raise("AttributeError")
    ELSE ReturnStr(lower(item[1].text.s))

is_commit_required(d, resource_uri) ==
    LET commit_required == find_xml(d, "SetResult", resource_uri, FALSE)
        t == text_lower(commit_required)
    IN IF t.kind = "raise" THEN t
       ELSE ReturnVal(Bool(contains(t.s, pendingvalue)))

\* variant: text.lower() != 'no'
is_reboot_required_not_no(d, resource_uri) ==
    LET reboot_required_elem == find_xml(d, "RebootRequired", resource_uri, FALSE)
        t == text_lower(reboot_required_elem)
    IN IF t.kind = "raise" THEN t
       ELSE ReturnVal(Bool(t.s # no))

is_reboot_required(d, resource_uri) ==
    LET reboot_required_elem == find_xml(d, "RebootRequired", resource_uri, FALSE)
        t == text_lower(reboot_required_elem)
    IN IF t.kind = "raise" THEN t
       ELSE ReturnVal(Bool(t.s = yes))

\* variant: text.strip().lower()
reboot_required_stripped(d, resource_uri) ==
    LET reboot_required_value == find_xml(d, "RebootRequired", resource_uri, FALSE)
        t == text_lower(reboot_required_value)
    IN IF t.kind = "raise" THEN t
       ELSE IF strip(t.s) \in DOMAIN REBOOT_REQUIRED
            THEN ReturnVal(REBOOT_REQUIRED[strip(t.s)])
            ELSE Raise("KeyError")

reboot_required(d, resource_uri) ==
    LET reboot_required_value == find_xml(d, "RebootRequired", resource_uri, FALSE)
        t == text_lower(reboot_required_value)
    IN IF t.kind = "raise" THEN t
       ELSE IF t.s \in DOMAIN REBOOT_REQUIRED
            THEN ReturnVal(REBOOT_REQUIRED[t.s])
            ELSE Raise("KeyError")

\* variant: "if not value" in place of "if value is None"
build_return_dict_falsy_overrides(d, resource_uri, is_commit_required_value, is_reboot_required_value, commit_required_value) ==
    IF is_reboot_required_value # "None"
       /\ is_reboot_required_value \notin RebootRequired_all
    THEN Raise("InvalidParameterValue")
    ELSE
    LET icr == IF is_commit_required_value \in {"None", "False"}
               THEN is_commit_required(d, resource_uri)
               ELSE ReturnVal(is_commit_required_value)
        irr == IF is_reboot_required_value \in {"None", "False"}
               THEN reboot_required(d, resource_uri)
               ELSE ReturnVal(is_reboot_required_value)
        cr  == IF commit_required_value \in {"None", "False"}
               THEN is_reboot_required(d, resource_uri)
               ELSE ReturnVal(commit_required_value)
    IN IF icr.kind = "raise" THEN icr
       ELSE IF irr.kind = "raise" THEN irr
       ELSE IF cr.kind = "raise" THEN cr
       ELSE ReturnDict([is_commit_required |-> icr.v,
                        is_reboot_required |-> irr.v,
                        commit_required    |-> cr.v])

\* variant: the override is validated where it is used, after
\* is_commit_required has been read
build_return_dict_late_validation(d, resource_uri, is_commit_required_value, is_reboot_required_value, commit_required_value) ==
    LET icr == IF is_commit_required_value = "None"
               THEN is_commit_required(d, resource_uri)
               ELSE ReturnVal(is_commit_required_value)
        irr == IF is_reboot_required_value = "None"
               THEN reboot_required(d, resource_uri)
               ELSE IF is_reboot_required_value \notin RebootRequired_all
                    THEN Raise("InvalidParameterValue")
                    ELSE ReturnVal(is_reboot_required_value)
        cr  == IF commit_required_value = "None"
               THEN is_reboot_required(d, resource_uri)
               ELSE ReturnVal(commit_required_value)
    IN IF icr.kind = "raise" THEN icr
       ELSE IF irr.kind = "raise" THEN irr
       ELSE IF cr.kind = "raise" THEN cr
       ELSE ReturnDict([is_commit_required |-> icr.v,
                        is_reboot_required |-> irr.v,
                        commit_required    |-> cr.v])

build_return_dict(d, resource_uri, is_commit_required_value, is_reboot_required_value, commit_required_value) ==
    IF is_reboot_required_value # "None"
       /\ is_reboot_required_value \notin RebootRequired_all
    THEN Raise("InvalidParameterValue")
    ELSE
    LET icr == IF is_commit_required_value = "None"
               THEN is_commit_required(d, resource_uri)
               ELSE ReturnVal(is_commit_required_value)
        irr == IF is_reboot_required_value = "None"
               THEN reboot_required(d, resource_uri)
               ELSE ReturnVal(is_reboot_required_value)
        cr  == IF commit_required_value = "None"
               THEN is_reboot_required(d, resource_uri)
               ELSE ReturnVal(commit_required_value)
    IN IF icr.kind = "raise" THEN icr
       ELSE IF irr.kind = "raise" THEN irr
       ELSE IF cr.kind = "raise" THEN cr
       ELSE ReturnDict([is_commit_required |-> icr.v,
                        is_reboot_required |-> irr.v,
                        commit_required    |-> cr.v])

-----------------------------------------------------------------------------
(* validate_integer_value.  A value is None, a str, an int, a float or a   *)
(* list; int(value) is the builtin.                                         *)

PyNone == [type |-> "NoneType"]

PyStr(s) == [type |-> "str", s |-> s]

PyInt(n) == [type |-> "int", n |-> n]

\* a float: finite with integer part trunc, or inf, or nan
PyFloat(class, trunc) == [type |-> "float", class |-> class, trunc |-> trunc]

PyList == [type |-> "list"]

Digits == {"0", "1", "2", "3", "4", "5", "6", "7", "8", "9"}

DigitVal(c) ==
    CASE c = "0" -> 0 [] c = "1" -> 1 [] c = "2" -> 2 [] c = "3" -> 3
      [] c = "4" -> 4 [] c = "5" -> 5 [] c = "6" -> 6 [] c = "7" -> 7
      [] c = "8" -> 8 [] c = "9" -> 9

RECURSIVE DigitsVal(_)
DigitsVal(s) ==
    IF s = <<>> THEN 0
    ELSE 10 * DigitsVal(SubSeq(s, 1, Len(s) - 1)) + DigitVal(s[Len(s)])

\* int(s) of a str: surrounding whitespace, an optional sign, decimal digits
int_str(s) ==
    LET t    == strip(s)
        neg  == t # <<>> /\ t[1] = "-"
        body == IF t # <<>> /\ t[1] \in {"+", "-"} THEN Tail(t) ELSE t
    IN IF body # <<>> /\ \A i \in 1..Len(body) : body[i] \in Digits
       THEN ReturnVal(IF neg THEN 0 - DigitsVal(body) ELSE DigitsVal(body))
       ELSE Raise("ValueError")

int(value) ==
    CASE value.type = "str"   -> int_str(value.s)
      [] value.type = "int"   -> ReturnVal(value.n)
      [] value.type = "float" ->
            IF value.class = "inf" THEN Raise("OverflowError")
            ELSE IF value.class = "nan" THEN Raise("ValueError")
            ELSE ReturnVal(value.trunc)
      [] OTHER                -> Raise("TypeError")

NotSupplied(attr_name) == <<"'", attr_name, "' is not supplied">>

NotAnInteger(attr_name) == <<"'", attr_name, "' is not an integer value">>

\* <<outcome, error_msgs after the call>>
validate_integer_value(value, attr_name, msgs) ==
    IF value.type = "NoneType"
    THEN <<ReturnNone, Append(msgs, NotSupplied(attr_name))>>
    ELSE LET r == int(value) IN
         IF r.kind = "raise"
         THEN IF r.exc = "ValueError"
              THEN <<ReturnNone, Append(msgs, NotAnInteger(attr_name))>>
              ELSE <<r, msgs>>
         ELSE <<ReturnNone, msgs>>

-----------------------------------------------------------------------------
(* Inputs *)

resource_uri == "http://schemas.dell.com/wbem/wscim/1/cim-schema/2/DCIM_Resource"

other_uri == "http://schemas.dmtf.org/wbem/wscim/1/cim-schema/2/CIM_Other"

AttrNames == {"Name", "Other"}

Text(s) == Str(s)

AttrTexts ==
    {None, Text(<<" ">>), Text(<<" ", "v", " ">>), Text(<<"\t", "w", "\n">>),
     Text(<<"x">>)}

Attribs == {NoAttrib, NilAttrib("true"), NilAttrib("True")}

AttrElems ==
    {Elem(resource_uri, "Name", t, a) : t \in AttrTexts, a \in Attribs}
    \cup {Elem(other_uri, "Name", Text(<<"o">>), NoAttrib),
          Elem(resource_uri, "Other", Text(<<"z">>), NoAttrib)}

SetResultTexts ==
    {None,
     Text(<<"p", "e", "n", "d", "i", "n", "g", "V", "a", "l", "u", "e">>),
     Text(<<"S", "e", "t", " ", "P", "e", "n", "d", "i", "n", "g", "V", "a",
            "l", "u", "e">>),
     Text(<<"S", "u", "c", "c", "e", "s", "s">>)}

RebootRequiredTexts ==
    {None,
     Text(<<"Y", "e", "s">>),
     Text(<<"Y", "E", "S">>),
     Text(<<"N", "o">>),
     Text(<<"O", "p", "t", "i", "o", "n", "a", "l">>),
     Text(<<" ", "y", "e", "s", " ">>),
     Text(<<"m", "a", "y", "b", "e">>)}

BuildElems ==
    {Elem(resource_uri, "SetResult", t, NoAttrib) : t \in SetResultTexts}
    \cup {Elem(resource_uri, "RebootRequired", t, NoAttrib) :
              t \in RebootRequiredTexts}
    \cup {Elem(resource_uri, "SetResult", t, NilAttrib("true")) :
              t \in {None, Text(<<"S", "u", "c", "c", "e", "s", "s">>)}}
    \cup {Elem(resource_uri, "RebootRequired", t, NilAttrib("true")) :
              t \in {None, Text(<<"Y", "e", "s">>)}}

SeqsUpTo(S, n) == UNION {[1..k -> S] : k \in 0..n}

Overrides == {"None", "True", "False"}

RebootOverrides == {"None", "True", "False", "optional", "maybe"}

IntValues ==
    {PyNone,
     PyStr(<<"4", "2">>), PyStr(<<" ", "-", "7", " ">>),
     PyStr(<<"a", "b", "c">>), PyStr(<<>>), PyStr(<<"4", ".", "2">>),
     PyInt(42),
     PyFloat("finite", 4), PyFloat("inf", 0), PyFloat("nan", 0),
     PyList}

IntNames == {"port", "size"}

-----------------------------------------------------------------------------
(* State machine: a document is supplied, then the functions are called   *)
(* on it; call records the last call and result its outcome.               *)

NoCall == [fn |-> "none"]

NoResult == [kind |-> "none"]

InitCommon ==
    /\ call = NoCall
    /\ result = NoResult
    /\ error_msgs = <<>>

InitAttr ==
    /\ doc \in SeqsUpTo(AttrElems, MaxElems)
    /\ InitCommon

InitBuild ==
    /\ doc \in SeqsUpTo(BuildElems, MaxElems)
    /\ InitCommon

InitInt ==
    /\ doc = <<>>
    /\ InitCommon

GetWsmanResourceAttr ==
    \E attr_name \in AttrNames, nullable \in BOOLEAN, allow_missing \in BOOLEAN :
        /\ call' = [fn |-> "get_wsman_resource_attr", attr_name |-> attr_name,
                    nullable |-> nullable, allow_missing |-> allow_missing]
        /\ result' = get_wsman_resource_attr(doc, resource_uri, attr_name,
                                             nullable, allow_missing)
        /\ UNCHANGED <<doc, error_msgs>>

GetAllWsmanResourceAttrs ==
    \E attr_name \in AttrNames, nullable \in BOOLEAN :
        /\ call' = [fn |-> "get_all_wsman_resource_attrs",
                    attr_name |-> attr_name, nullable |-> nullable]
        /\ result' = get_all_wsman_resource_attrs(doc, resource_uri, attr_name,
                                                  nullable)
        /\ UNCHANGED <<doc, error_msgs>>

BuildReturnDict ==
    \E icr \in Overrides, irr \in RebootOverrides, cr \in Overrides :
        /\ call' = [fn |-> "build_return_dict",
                    is_commit_required_value |-> icr,
                    is_reboot_required_value |-> irr,
                    commit_required_value |-> cr]
        /\ result' = build_return_dict(doc, resource_uri, icr, irr, cr)
        /\ UNCHANGED <<doc, error_msgs>>

IsCommitRequired ==
    /\ call' = [fn |-> "is_commit_required"]
    /\ result' = is_commit_required(doc, resource_uri)
    /\ UNCHANGED <<doc, error_msgs>>

IsRebootRequired ==
    /\ call' = [fn |-> "is_reboot_required"]
    /\ result' = is_reboot_required(doc, resource_uri)
    /\ UNCHANGED <<doc, error_msgs>>

RebootRequired ==
    /\ call' = [fn |-> "reboot_required"]
    /\ result' = reboot_required(doc, resource_uri)
    /\ UNCHANGED <<doc, error_msgs>>

ValidateIntegerValue ==
    \E value \in IntValues, attr_name \in IntNames :
        /\ Len(error_msgs) < MaxMsgs
        /\ call' = [fn |-> "validate_integer_value", value |-> value,
                    attr_name |-> attr_name]
        /\ result' = validate_integer_value(value, attr_name, error_msgs)[1]
        /\ error_msgs' = validate_integer_value(value, attr_name, error_msgs)[2]
        /\ UNCHANGED doc

NextAttr == GetWsmanResourceAttr \/ GetAllWsmanResourceAttrs

NextBuild ==
    BuildReturnDict \/ IsCommitRequired \/ IsRebootRequired \/ RebootRequired

NextInt == ValidateIntegerValue

SpecAttr == InitAttr /\ [][NextAttr]_vars

SpecBuild == InitBuild /\ [][NextBuild]_vars

SpecInt == InitInt /\ [][NextInt]_vars

-----------------------------------------------------------------------------
(* Vocabulary of the properties *)

\* the elements of the document in the resource's namespace named tag
Matching(tag) == SelectSeq(doc, LAMBDA e : e.ns = resource_uri /\ e.tag = tag)

Found(tag) == Matching(tag) # <<>>

First(tag) == Matching(tag)[1]

MarkedNil(e) == NilKey \in DOMAIN e.attrib /\ e.attrib[NilKey] = "true"

HasText(e) == ~e.text.none

IsBlank(s) == \A i \in 1..Len(s) : s[i] \in Whitespace

\* r is t without its leading and trailing whitespace
IsTrimmed(t, r) ==
    \E i \in 0..Len(t), j \in 0..Len(t) :
        /\ i + j <= Len(t)
        /\ r = SubSeq(t, i + 1, Len(t) - j)
        /\ IsBlank(SubSeq(t, 1, i))
        /\ IsBlank(SubSeq(t, Len(t) - j + 1, Len(t)))
        /\ r # <<>> => (r[1] \notin Whitespace /\ r[Len(r)] \notin Whitespace)

\* t read without regard to letter case is the lower-case word w
FoldsTo(t, w) ==
    /\ Len(t) = Len(w)
    /\ \A i \in 1..Len(t) :
          \/ t[i] = w[i]
          \/ \E k \in 1..Len(Lowercase) : Lowercase[k] = w[i] /\ Uppercase[k] = t[i]

\* t contains "pendingvalue" in some letter case
MentionsPendingValue(t) ==
    \E i \in 1..Len(t), j \in 1..Len(t) : FoldsTo(SubSeq(t, i, j), pendingvalue)

CalledGet == call.fn = "get_wsman_resource_attr"

CalledGetAll == call.fn = "get_all_wsman_resource_attrs"

CalledBuild == call.fn = "build_return_dict"

-----------------------------------------------------------------------------
(* get_wsman_resource_attr *)

\* C1 as stated: with nullable false and a found element the call fails
\* with DRACEmptyResponseField or returns a non-empty string; it fails
\* whenever the text is absent, empty or blank.
C1_EmptyOrBlankTextFails ==
    (CalledGet /\ ~call.nullable /\ Found(call.attr_name)) =>
        /\ \/ result = RaiseAttr("DRACEmptyResponseField", call.attr_name)
           \/ (result.kind = "str" /\ result.s # <<>>)
        /\ (\/ ~HasText(First(call.attr_name))
            \/ IsBlank(First(call.attr_name).text.s))
              => result = RaiseAttr("DRACEmptyResponseField", call.attr_name)

\* C1 amended: with nullable false and a found element the call fails with
\* DRACEmptyResponseField(attr) exactly when the first matching element has
\* no text (None); otherwise it returns the trimmed text, which is the
\* empty string exactly when the text is empty or blank.
C1_AbsentTextFails ==
    (CalledGet /\ ~call.nullable /\ Found(call.attr_name)) =>
        IF ~HasText(First(call.attr_name))
        THEN result = RaiseAttr("DRACEmptyResponseField", call.attr_name)
        ELSE /\ result.kind = "str"
             /\ IsTrimmed(First(call.attr_name).text.s, result.s)
             /\ result.s = <<>> <=> IsBlank(First(call.attr_name).text.s)

C1_Witness ==
    /\ CalledGet /\ ~call.nullable /\ Found(call.attr_name)
    /\ ~HasText(First(call.attr_name))
    /\ result = RaiseAttr("DRACEmptyResponseField", call.attr_name)

\* C2: when no element matches, allow_missing alone decides: None is
\* returned if it is true, DRACMissingResponseField(attr) raised if not,
\* whatever nullable is.
C2_MissingDecidedByAllowMissing ==
    (CalledGet /\ ~Found(call.attr_name)) =>
        IF call.allow_missing
        THEN result = ReturnNone
        ELSE result = RaiseAttr("DRACMissingResponseField", call.attr_name)

C2_Witness ==
    /\ CalledGet /\ ~Found(call.attr_name)
    /\ call.allow_missing /\ ~call.nullable
    /\ result = ReturnNone

\* C3 as stated: with nullable true and a found element the call returns
\* None if the element is marked nil and its trimmed text if not, and
\* raises nothing, whatever the element's text.
C3_NullableNeverRaises ==
    (CalledGet /\ call.nullable /\ Found(call.attr_name)) =>
        IF MarkedNil(First(call.attr_name))
        THEN result = ReturnNone
        ELSE /\ result.kind = "str"
             /\ HasText(First(call.attr_name))
                   => IsTrimmed(First(call.attr_name).text.s, result.s)

-----------------------------------------------------------------------------
(* get_all_wsman_resource_attrs *)

RECURSIVE TrimmedTexts(_)
TrimmedTexts(elems) ==
    IF elems = <<>> THEN <<>>
    ELSE <<strip(Head(elems).text.s)>> \o TrimmedTexts(Tail(elems))

\* C4 as stated: when a matching element has no text, the call with
\* nullable false fails with DRACEmptyResponseField and the call with
\* nullable true raises nothing and returns the trimmed texts of the other
\* (non-nil) matching elements in document order.
C4_EmptyElementOmitted ==
    (CalledGetAll /\ \E i \in 1..Len(Matching(call.attr_name)) :
                        ~HasText(Matching(call.attr_name)[i])) =>
        IF ~call.nullable
        THEN result = RaiseAttr("DRACEmptyResponseField", call.attr_name)
        ELSE result = ReturnList(TrimmedTexts(
                 SelectSeq(Matching(call.attr_name),
                           LAMBDA e : HasText(e) /\ ~MarkedNil(e))))

-----------------------------------------------------------------------------
(* is_commit_required, is_reboot_required, reboot_required *)

CalledReader ==
    call.fn \in {"is_commit_required", "is_reboot_required", "reboot_required"}

\* the well-known field the last called reader looks up
ReaderField ==
    IF call.fn = "is_commit_required" THEN "SetResult" ELSE "RebootRequired"

\* C7: reboot_required maps the text of the first RebootRequired element,
\* read without regard to letter case, "yes" to true, "no" to false and
\* "optional" to optional; for every other text, text with surrounding
\* whitespace included, it fails with KeyError.
C7_RebootRequiredTable ==
    (call.fn = "reboot_required" /\ Found("RebootRequired")
        /\ HasText(First("RebootRequired"))) =>
        LET t == First("RebootRequired").text.s IN
        IF FoldsTo(t, yes) THEN result = ReturnVal("True")
        ELSE IF FoldsTo(t, no) THEN result = ReturnVal("False")
        ELSE IF FoldsTo(t, optional) THEN result = ReturnVal("optional")
        ELSE result = Raise("KeyError")

C7_Witness ==
    /\ call.fn = "reboot_required" /\ Found("RebootRequired")
    /\ HasText(First("RebootRequired"))
    /\ First("RebootRequired").text.s = <<" ", "y", "e", "s", " ">>
    /\ result = Raise("KeyError")

\* C9 as stated: each reader raises whenever its field is absent from the
\* document or the first matching element is marked nil.
C9_AbsentOrNilRaises ==
    (CalledReader /\ (~Found(ReaderField) \/ MarkedNil(First(ReaderField))))
        => result.kind = "raise"

\* C9 amended: each reader raises (AttributeError) whenever its field is
\* absent from the document or the first matching element has no text, as
\* a nil element without content has; it returns no value in those cases.
C9_AbsentOrTextlessRaises ==
    (CalledReader /\ (~Found(ReaderField) \/ ~HasText(First(ReaderField))))
        => result = Raise("AttributeError")

C9_Witness ==
    /\ CalledReader /\ Found(ReaderField)
    /\ MarkedNil(First(ReaderField)) /\ ~HasText(First(ReaderField))
    /\ result = Raise("AttributeError")

-----------------------------------------------------------------------------
(* build_return_dict *)

pendingValue == <<"p", "e", "n", "d", "i", "n", "g", "V", "a", "l", "u", "e">>

NoOverrides ==
    /\ call.is_commit_required_value = "None"
    /\ call.is_reboot_required_value = "None"
    /\ call.commit_required_value = "None"

\* C5: a returned record has exactly the fields is_commit_required,
\* is_reboot_required and commit_required; each holds the caller's override
\* when one is supplied (False included), else the value read from the
\* document: whether the SetResult text mentions "pendingvalue" in any
\* letter case, the RebootRequired text through the three-way table, and
\* whether the RebootRequired text is "yes" in any letter case; SetResult
\* "pendingValue" with RebootRequired "No" and no override gives
\* {True, False, False}.
C5_OverrideElseComputed ==
    CalledBuild =>
        /\ result.kind = "dict" =>
              /\ DOMAIN result.d =
                    {"is_commit_required", "is_reboot_required", "commit_required"}
              /\ result.d.is_commit_required =
                    IF call.is_commit_required_value # "None"
                    THEN call.is_commit_required_value
                    ELSE Bool(MentionsPendingValue(First("SetResult").text.s))
              /\ result.d.is_reboot_required =
                    IF call.is_reboot_required_value # "None"
                    THEN call.is_reboot_required_value
                    ELSE IF FoldsTo(First("RebootRequired").text.s, yes)
                         THEN "True"
                    ELSE IF FoldsTo(First("RebootRequired").text.s, no)
                         THEN "False"
                    ELSE "optional"
              /\ result.d.commit_required =
                    IF call.commit_required_value # "None"
                    THEN call.commit_required_value
                    ELSE Bool(FoldsTo(First("RebootRequired").text.s, yes))
        /\ (/\ NoOverrides
            /\ Found("SetResult") /\ First("SetResult").text = Text(pendingValue)
            /\ Found("RebootRequired")
            /\ First("RebootRequired").text = Text(<<"N", "o">>))
              => result = ReturnDict([is_commit_required |-> "True",
                                      is_reboot_required |-> "False",
                                      commit_required    |-> "False"])

C5_Witness ==
    /\ CalledBuild /\ result.kind = "dict"
    /\ call.is_commit_required_value = "False"
    /\ call.is_reboot_required_value = "None"
    /\ call.commit_required_value = "None"
    /\ Found("SetResult") /\ First("SetResult").text = Text(pendingValue)
    /\ result.d = [is_commit_required |-> "False",
                   is_reboot_required |-> "optional",
                   commit_required    |-> "False"]

\* C6: an is_reboot_required override that is supplied and is none of
\* true, false, optional makes the call fail with InvalidParameterValue,
\* whatever the document and the other overrides are, also when SetResult
\* or RebootRequired is missing.
C6_InvalidOverrideRejectedFirst ==
    (CalledBuild /\ call.is_reboot_required_value
                        \notin {"None", "True", "False", "optional"})
        => result = Raise("InvalidParameterValue")

C6_Witness ==
    /\ CalledBuild /\ call.is_reboot_required_value = "maybe"
    /\ call.is_commit_required_value = "None"
    /\ ~Found("SetResult")
    /\ result = Raise("InvalidParameterValue")

\* C10: with neither the is_reboot_required nor the commit_required
\* override, a returned record has commit_required true exactly when
\* is_reboot_required is true, and false when is_reboot_required is false
\* or optional; and when the RebootRequired text is none of yes, no,
\* optional in any letter case, the call fails.
C10_LegacyFieldAgrees ==
    (/\ CalledBuild
     /\ call.is_reboot_required_value = "None"
     /\ call.commit_required_value = "None") =>
        /\ result.kind = "dict" =>
              /\ result.d.commit_required = "True"
                    <=> result.d.is_reboot_required = "True"
              /\ result.d.is_reboot_required \in {"False", "optional"}
                    => result.d.commit_required = "False"
        /\ (/\ Found("RebootRequired") /\ HasText(First("RebootRequired"))
            /\ \A w \in {yes, no, optional} :
                  ~FoldsTo(First("RebootRequired").text.s, w))
              => result.kind = "raise"

C10_Witness ==
    /\ CalledBuild /\ result.kind = "dict"
    /\ call.is_reboot_required_value = "None"
    /\ call.commit_required_value = "None"
    /\ result.d.is_reboot_required = "optional"
    /\ result.d.commit_required = "False"

-----------------------------------------------------------------------------
(* validate_integer_value *)

\* C8 as stated: the call never raises; it appends "'<name>' is not
\* supplied" for an absent value, "'<name>' is not an integer value" for a
\* value int() does not accept, and nothing otherwise, keeping the entries
\* already in the list in order.
C8_NeverRaises ==
    [][call'.fn = "validate_integer_value" =>
          /\ result'.kind # "raise"
          /\ error_msgs' =
                IF call'.value = PyNone
                THEN Append(error_msgs, <<"'", call'.attr_name, "' is not supplied">>)
                ELSE IF int(call'.value).kind = "raise"
                THEN Append(error_msgs,
                            <<"'", call'.attr_name, "' is not an integer value">>)
                ELSE error_msgs]_vars

====
